---------------------------- MODULE Spec2Model ----------------------------
(***************************************************************************)
(* A model of configfetch (src/configfetch.py): the two configparser       *)
(* stores of ConfigFetch, the full ('fini') parse of bracket markers, the  *)
(* three-source resolution of SectionProxy / Func, and the plus/minus      *)
(* merge.  Python strings are TLA+ strings; every other Python value is a  *)
(* tagged record.                                                          *)
(***************************************************************************)
EXTENDS Integers, Sequences, FiniteSets, TLC

VARIABLES
    config,     \* ConfigFetch._config: section name -> (option -> raw string)
    ctxs,       \* ConfigFetch._ctxs:   section name -> (option -> 'F1,F2,...')
    cache,      \* ConfigFetch._cache:  section name -> ctx section of the proxy
    args,       \* ConfigFetch._args:   the argparse namespace, option -> value
    envs,       \* ConfigFetch._envs:   option -> environment variable name
    environ,    \* os.environ:          environment variable name -> string
    source,     \* the config store as the last full parse received it
    nreads,     \* number of read_string calls so far
    result,     \* what the last operation did and returned
    adjusts,    \* _get_plusminus_values: the layers of the call
    initial,    \* _get_plusminus_values: the initial list of the call
    pos,        \* _get_plusminus_values: number of layers consumed by the loop
    values,     \* _get_plusminus_values: the accumulated OrderedDict keys
    before,     \* the accumulated keys before the last consumed layer
    pc          \* _get_plusminus_values: "idle", "loop", "returned", or the
                \* class of the exception that ended the call

vars == <<config, ctxs, source, cache, args, envs, environ, nreads, result,
          adjusts, initial, pos, values, before, pc>>

storeVars == <<config, ctxs, source, cache, args, envs, environ, nreads, result>>
mergeVars == <<adjusts, initial, pos, values, before, pc>>

----------------------------------------------------------------------------
(* Python values *)

_UNSET == [t |-> "unset"]
None == [t |-> "none"]
Str(s) == [t |-> "str", v |-> s]
List(l) == [t |-> "list", v |-> l]
Lists(l) == [t |-> "lists", v |-> l]
Bool(b) == [t |-> "bool", v |-> b]
\* a raised exception, named by its class
Raise(e) == [t |-> "raise", v |-> e]

IsRaise(x) == x.t = "raise"

\* isinstance(x, str), isinstance(x, list)
IsStr(x) == x.t = "str"
IsList(x) == x.t \in {"list", "lists"}

\* bool(x): the truth value of a Python value
Truthy(x) ==
    CASE x.t = "str" -> x.v # ""
      [] x.t \in {"list", "lists"} -> x.v # <<>>
      [] x.t = "bool" -> x.v
      [] OTHER -> FALSE

----------------------------------------------------------------------------
(* Python str methods *)

Char(s, i) == SubSeq(s, i, i)
Drop(s, n) == SubSeq(s, n + 1, Len(s))
startswith(s, p) == Len(s) >= Len(p) /\ SubSeq(s, 1, Len(p)) = p

\* str.isspace() of one character; also the regex class \s
Whitespace == {" ", "\t", "\n", "\r"}

RECURSIVE lstripchars(_, _)
lstripchars(s, chars) ==
    IF s # "" /\ Char(s, 1) \in chars THEN lstripchars(Drop(s, 1), chars) ELSE s

RECURSIVE rstripchars(_, _)
rstripchars(s, chars) ==
    IF s # "" /\ Char(s, Len(s)) \in chars
    THEN rstripchars(SubSeq(s, 1, Len(s) - 1), chars) ELSE s

\* s.strip(chars) and s.strip()
stripchars(s, chars) == rstripchars(lstripchars(s, chars), chars)
strip(s) == stripchars(s, Whitespace)

\* s.split(sep) for a one-character sep: always at least one piece
RECURSIVE split(_, _)
split(s, sep) ==
    IF \E i \in 1..Len(s) : Char(s, i) = sep
    THEN LET i == CHOOSE k \in 1..Len(s) :
                      /\ Char(s, k) = sep
                      /\ \A j \in 1..(k - 1) : Char(s, j) # sep
         IN <<SubSeq(s, 1, i - 1)>> \o split(Drop(s, i), sep)
    ELSE <<s>>

\* sep.join(l)
RECURSIVE join(_, _)
join(sep, l) ==
    IF l = <<>> THEN ""
    ELSE IF Len(l) = 1 THEN l[1]
    ELSE l[1] \o sep \o join(sep, Tail(l))

UpperLetters == <<"A", "B", "C", "D", "E", "F", "G", "H", "I", "J", "K", "L", "M",
                  "N", "O", "P", "Q", "R", "S", "T", "U", "V", "W", "X", "Y", "Z">>
LowerLetters == <<"a", "b", "c", "d", "e", "f", "g", "h", "i", "j", "k", "l", "m",
                  "n", "o", "p", "q", "r", "s", "t", "u", "v", "w", "x", "y", "z">>

Translate(c, from, to) ==
    IF \E i \in DOMAIN from : from[i] = c
    THEN to[CHOOSE i \in DOMAIN from : from[i] = c] ELSE c

\* s.lower() and s.upper()
RECURSIVE lower(_)
lower(s) ==
    IF s = "" THEN ""
    ELSE Translate(Char(s, 1), UpperLetters, LowerLetters) \o lower(Drop(s, 1))

RECURSIVE upper(_)
upper(s) ==
    IF s = "" THEN ""
    ELSE Translate(Char(s, 1), LowerLetters, UpperLetters) \o upper(Drop(s, 1))

\* [f(x) for x in l if p(x)] for the two list comprehensions of the splitters
RECURSIVE StripNonBlank(_, _)
StripNonBlank(l, chars) ==
    IF l = <<>> THEN <<>>
    ELSE (IF strip(Head(l)) # "" THEN <<stripchars(Head(l), chars)>> ELSE <<>>)
         \o StripNonBlank(Tail(l), chars)

----------------------------------------------------------------------------
(* Splitters *)

_parse_comma(value) ==
    IF value # "" THEN StripNonBlank(split(value, ","), Whitespace) ELSE <<>>

_parse_line(value) ==
    IF value # "" THEN StripNonBlank(split(value, "\n"), {" ", ","}) ELSE <<>>

----------------------------------------------------------------------------
(* The function registry *)

\* the names the @register decorator has collected once the module is loaded
_REGISTRY == {"_bool", "_comma", "_line", "_bar", "_cmd", "_cmds", "_fmt", "_plus"}

\* {'COMMA': '_comma', ...}
_make_func_dict(registry) ==
    [key \in {upper(lstripchars(func, {"_"})) : func \in registry} |->
        CHOOSE func \in registry : upper(lstripchars(func, {"_"})) = key]

\* the dictionary of the registry as it stands after the module is loaded
funcdict == _make_func_dict(_REGISTRY)

\* _make_func_regex(_REGISTRY).match(value), the regex being
\* \s*(?:\[=(BOOL)\]|\[=(COMMA)\]|...)\s* : the name of the marker and the
\* end of the match, or no match.  No alternative starts with whitespace and
\* every alternative ends with ']', so the greedy choices are the only ones.
_make_func_regex(value) ==
    LET formats == DOMAIN funcdict
        lead == Len(value) - Len(lstripchars(value, Whitespace))
        body == Drop(value, lead)
    IN IF \E fmt \in formats : startswith(body, "[=" \o fmt \o "]")
       THEN LET fmt == CHOOSE f \in formats : startswith(body, "[=" \o f \o "]")
                after == Drop(body, Len(fmt) + Len("[=]"))
            IN [matched |-> TRUE, group |-> fmt,
                end |-> Len(value) - Len(lstripchars(after, Whitespace))]
       ELSE [matched |-> FALSE, group |-> "", end |-> Len("")]

----------------------------------------------------------------------------
(* The plus/minus merge *)

Range(seq) == {seq[i] : i \in DOMAIN seq}

\* list(OrderedDict.fromkeys(keys)): first occurrences, in order
RECURSIVE _fromkeys(_)
_fromkeys(keys) ==
    IF keys = <<>> THEN <<>>
    ELSE LET front == _fromkeys(SubSeq(keys, 1, Len(keys) - 1))
             last == keys[Len(keys)]
         IN IF last \in Range(front) THEN front ELSE Append(front, last)

\* plusminus_members with '+name' appending whether or not name is a key
RECURSIVE plusminus_members_append(_, _)
plusminus_members_append(keys, members) ==
    IF members = <<>> THEN List(keys)
    ELSE LET cmd == SubSeq(Head(members), 1, 1)
             a == Drop(Head(members), 1)
         IN IF a # "" /\ cmd = "+"
            THEN plusminus_members_append(Append(keys, a), Tail(members))
            ELSE IF a # "" /\ cmd = "-"
            THEN plusminus_members_append(SelectSeq(keys, LAMBDA k : k # a),
                                          Tail(members))
            ELSE Raise("ValueError")

\* plusminus_members with a bare member passed over instead of refused
RECURSIVE plusminus_members_lenient(_, _)
plusminus_members_lenient(keys, members) ==
    IF members = <<>> THEN List(keys)
    ELSE LET cmd == SubSeq(Head(members), 1, 1)
             a == Drop(Head(members), 1)
         IN IF a # "" /\ cmd = "+"
            THEN plusminus_members_lenient(
                     IF a \in Range(keys) THEN keys ELSE Append(keys, a),
                     Tail(members))
            ELSE IF a # "" /\ cmd = "-"
            THEN plusminus_members_lenient(SelectSeq(keys, LAMBDA k : k # a),
                                           Tail(members))
            ELSE plusminus_members_lenient(keys, Tail(members))

\* the inner loop 'for a in adjust' on the keys accumulated so far
RECURSIVE plusminus_members(_, _)
plusminus_members(keys, members) ==
    IF members = <<>> THEN List(keys)
    ELSE LET cmd == SubSeq(Head(members), 1, 1)
             a == Drop(Head(members), 1)
         IN IF a # "" /\ cmd = "+"
            THEN plusminus_members(
                     IF a \in Range(keys) THEN keys ELSE Append(keys, a),
                     Tail(members))
            ELSE IF a # "" /\ cmd = "-"
            THEN plusminus_members(SelectSeq(keys, LAMBDA k : k # a), Tail(members))
            ELSE Raise("ValueError")

\* plusminus_layer with a layer of bare members added to the keys, not
\* replacing them
plusminus_layer_extend(keys, adjust) ==
    IF adjust \in {_UNSET, None, Str(""), List(<<>>)} THEN List(keys)
    ELSE IF ~IsStr(adjust) THEN Raise("ValueError")
    ELSE LET members == _parse_comma(adjust.v)
         IN IF ~\E i \in DOMAIN members :
                   startswith(members[i], "+") \/ startswith(members[i], "-")
            THEN List(_fromkeys(keys \o members))
            ELSE plusminus_members(keys, members)

\* plusminus_layer with 'if adjust in (_UNSET, None)': an empty string is
\* split, an empty list refused
plusminus_layer_blank(keys, adjust) ==
    IF adjust \in {_UNSET, None} THEN List(keys)
    ELSE IF ~IsStr(adjust) THEN Raise("ValueError")
    ELSE LET members == _parse_comma(adjust.v)
         IN IF ~\E i \in DOMAIN members :
                   startswith(members[i], "+") \/ startswith(members[i], "-")
            THEN List(_fromkeys(members))
            ELSE plusminus_members(keys, members)

\* one turn of the loop 'for adjust in adjusts': the keys afterwards, or the
\* ValueError that ends the call
plusminus_layer(keys, adjust) ==
    IF adjust \in {_UNSET, None, Str(""), List(<<>>)} THEN List(keys)
    ELSE IF ~IsStr(adjust) THEN Raise("ValueError")
    ELSE LET members == _parse_comma(adjust.v)
         IN IF ~\E i \in DOMAIN members :
                   startswith(members[i], "+") \/ startswith(members[i], "-")
            THEN List(_fromkeys(members))
            ELSE plusminus_members(keys, members)

\* values = _fromkeys(initial) if initial else _fromkeys([])
plusminus_initial(init) == IF Truthy(init) THEN _fromkeys(init.v) ELSE <<>>

RECURSIVE plusminus_loop(_, _)
plusminus_loop(keys, adj) ==
    IF adj = <<>> THEN List(keys)
    ELSE LET step == plusminus_layer(keys, Head(adj))
         IN IF IsRaise(step) THEN step ELSE plusminus_loop(step.v, Tail(adj))

_get_plusminus_values(adj, init) == plusminus_loop(plusminus_initial(init), adj)

----------------------------------------------------------------------------
(* The two configparser stores.  A store maps the default section and every
   section that exists to the options the section defines itself. *)

default_section == "DEFAULT"

\* ConfigParser.__contains__: 'section in parser'
has_section(parser, section) == section \in DOMAIN parser

\* ConfigParser.options(section): own options and those of the default section
options(parser, section) == DOMAIN parser[section] \cup DOMAIN parser[default_section]

has_option(parser, section, option) == option \in options(parser, section)

\* ConfigParser.get(section, option) of an option the section has: the
\* section's own value first, the default section's otherwise.  No value of
\* the model holds a '%', so interpolation returns the value as stored.
parser_get(parser, section, option) ==
    IF option \in DOMAIN parser[section] THEN parser[section][option]
    ELSE parser[default_section][option]

\* ConfigParser.set(section, option, value)
parser_set(parser, section, option, value) ==
    [parser EXCEPT ![section] =
        [o \in DOMAIN parser[section] \cup {option} |->
            IF o = option THEN value ELSE parser[section][o]]]

\* ConfigParser.read_string(string) for a string that configparser parses
\* into 'text' (section -> option -> value): sections are added, values set
parser_read(parser, text) ==
    [s \in DOMAIN parser \cup DOMAIN text |->
        IF s \notin DOMAIN text THEN parser[s]
        ELSE IF s \notin DOMAIN parser THEN text[s]
        ELSE [o \in DOMAIN parser[s] \cup DOMAIN text[s] |->
                 IF o \in DOMAIN text[s] THEN text[s][o] ELSE parser[s][o]]]

----------------------------------------------------------------------------
(* Func *)

BOOLEAN_STATES ==
    ("1" :> TRUE) @@ ("yes" :> TRUE) @@ ("true" :> TRUE) @@ ("on" :> TRUE) @@
    ("0" :> FALSE) @@ ("no" :> FALSE) @@ ("false" :> FALSE) @@ ("off" :> FALSE)

\* value.lower() exists for strings only
_bool(value) ==
    IF ~IsStr(value) THEN Raise("AttributeError")
    ELSE IF lower(value.v) \notin DOMAIN BOOLEAN_STATES THEN Raise("ValueError")
    ELSE Bool(BOOLEAN_STATES[lower(value.v)])

\* _parse_comma(value): 'if value:' first, then value.split
_comma(value) ==
    IF ~Truthy(value) THEN List(<<>>)
    ELSE IF ~IsStr(value) THEN Raise("AttributeError")
    ELSE List(_parse_comma(value.v))

_line(value) ==
    IF ~Truthy(value) THEN List(<<>>)
    ELSE IF ~IsStr(value) THEN Raise("AttributeError")
    ELSE List(_parse_line(value.v))

\* '|'.join needs strings: a list of lists is a TypeError
_bar(value) ==
    IF ~IsList(value) THEN Raise("ValueError")
    ELSE IF value.t = "lists"
    THEN (IF \E i \in DOMAIN value.v : value.v[i] # <<>>
          THEN Raise("TypeError") ELSE Str(""))
    ELSE IF \E i \in DOMAIN value.v : value.v[i] # ""
    THEN Str(join("|", value.v))
    ELSE Str("")

\* str.split(): the tokens between runs of whitespace
RECURSIVE splitws(_)
splitws(s) ==
    LET body == lstripchars(s, Whitespace)
    IN IF body = "" THEN <<>>
       ELSE LET n == IF \E i \in 1..Len(body) : Char(body, i) \in Whitespace
                     THEN (CHOOSE k \in 1..Len(body) :
                              /\ Char(body, k) \in Whitespace
                              /\ \A j \in 1..(k - 1) : Char(body, j) \notin Whitespace) - 1
                     ELSE Len(body)
            IN <<SubSeq(body, 1, n)>> \o splitws(Drop(body, n))

\* shlex.split(value, comments='#') of a string with no quote, no backslash
\* and no '#' is value.split(); the model gives it no other string
shlex_split(s) == splitws(s)

_cmd(value) ==
    IF ~IsStr(value) THEN Raise("AttributeError") ELSE List(shlex_split(value.v))

\* [self._cmd(v) for v in value] for a list of strings
_cmds(value) ==
    IF value.t = "list" THEN
        (IF value.v = <<>> THEN List(<<>>)
         ELSE Lists([i \in DOMAIN value.v |-> shlex_split(value.v[i])]))
    ELSE IF value.t = "str" THEN
        (IF value.v = "" THEN List(<<>>)
         ELSE Lists([i \in 1..Len(value.v) |-> shlex_split(Char(value.v, i))]))
    ELSE IF value.t = "lists" THEN Raise("AttributeError")
    ELSE Raise("TypeError")

\* value.format(**self._fmts) of a string with no brace is the string itself;
\* the model gives it no other string
_fmt(value) ==
    IF ~IsStr(value) THEN Raise("AttributeError") ELSE value

\* values = self.values; _get_plusminus_values(reversed(values))
Reversed(seq) == [i \in DOMAIN seq |-> seq[Len(seq) + 1 - i]]

\* _plus without reversed(): the argument layer first, the config layer last
_plus_forward(value, self_values) == _get_plusminus_values(self_values, None)

_plus(value, self_values) == _get_plusminus_values(Reversed(self_values), None)

\* _get_value with 'elif env is not _UNSET': an empty environment value wins
_get_value_blank_env(triple) ==
    LET arg == triple[1]
        env == triple[2]
        conf == triple[3]
    IN IF arg \notin {_UNSET, None} THEN arg
       ELSE IF env # _UNSET THEN env
       ELSE IF conf # _UNSET THEN conf
       ELSE _UNSET

_get_value(triple) ==
    LET arg == triple[1]
        env == triple[2]
        conf == triple[3]
    IN IF arg \notin {_UNSET, None} THEN arg
       ELSE IF env \notin {_UNSET, Str("")} THEN env
       ELSE IF conf # _UNSET THEN conf
       ELSE _UNSET

\* ctx.get(option) of the configparser section proxy: None when missing
ctx_get(cx, ctx, option) ==
    IF has_option(cx, ctx, option) THEN Str(parser_get(cx, ctx, option)) ELSE None

\* 'if self._ctx:' is len(ctx) > 0, the default section's options included
ctx_bool(cx, ctx) == options(cx, ctx) # {}

\* the method names of the option's chain, or the KeyError of funcdict[f]
_get_funcname(cx, ctx, option) ==
    IF ctx_bool(cx, ctx) /\ Truthy(ctx_get(cx, ctx, option))
    THEN LET fs == split(ctx_get(cx, ctx, option).v, ",")
         IN IF \E i \in DOMAIN fs : strip(fs[i]) \notin DOMAIN funcdict
            THEN Raise("KeyError")
            ELSE List([i \in DOMAIN fs |-> funcdict[strip(fs[i])]])
    ELSE List(<<>>)

\* getattr(self, fn)(value)
apply_func(fn, value, self_values) ==
    CASE fn = "_bool" -> _bool(value)
      [] fn = "_comma" -> _comma(value)
      [] fn = "_line" -> _line(value)
      [] fn = "_bar" -> _bar(value)
      [] fn = "_cmd" -> _cmd(value)
      [] fn = "_cmds" -> _cmds(value)
      [] fn = "_fmt" -> _fmt(value)
      [] fn = "_plus" -> _plus(value, self_values)

\* apply_chain taking the functions from the last to the first
RECURSIVE apply_chain_reversed(_, _, _)
apply_chain_reversed(func, value, self_values) ==
    IF func = <<>> \/ IsRaise(value) THEN value
    ELSE apply_chain_reversed(SubSeq(func, 1, Len(func) - 1),
                              apply_func(func[Len(func)], value, self_values),
                              self_values)

\* for f in func: value = f(value)
RECURSIVE apply_chain(_, _, _)
apply_chain(func, value, self_values) ==
    IF func = <<>> \/ IsRaise(value) THEN value
    ELSE apply_chain(Tail(func), apply_func(Head(func), value, self_values), self_values)

_format_value(option, triple, func) ==
    LET value == _get_value(triple)
    IN IF value = _UNSET THEN Raise("NoOptionError")
       ELSE IF func = <<>> THEN value
       ELSE apply_chain(func, value, triple)

\* Func(ctx, fmts).__call__(option, values)
Func_call(cx, ctx, option, triple) ==
    LET func == _get_funcname(cx, ctx, option)
    IN IF IsRaise(func) THEN func ELSE _format_value(option, triple, func.v)

----------------------------------------------------------------------------
(* ConfigFetch: reading and the full ('fini') parse *)

NoOptions == [o \in {} |-> ""]

\* the two stores ConfigFetch.__init__ builds: the default section only
NewParser == [s \in {default_section} |-> NoOptions]

\* parse_markers without the loop: the first marker only
parse_markers_first(value, func) ==
    LET match == _make_func_regex(value)
    IN IF match.matched
       THEN [value |-> Drop(value, match.end), func |-> Append(func, match.group)]
       ELSE [value |-> value, func |-> func]

\* the loop of _parse_option: the value left and the markers found, in order
RECURSIVE parse_markers(_, _)
parse_markers(value, func) ==
    LET match == _make_func_regex(value)
    IN IF match.matched
       THEN parse_markers(Drop(value, match.end), Append(func, match.group))
       ELSE [value |-> value, func |-> func]

_parse_option(value) == parse_markers(value, <<>>)

\* the body of the loop of _parse_config for one section: every option the
\* section has (the default section's included) is parsed and set in the
\* section itself; a chain is recorded only when a marker was found
parse_section(cfg, cx, secname) ==
    LET cx1 == IF has_section(cx, secname) THEN cx
               ELSE [s \in DOMAIN cx \cup {secname} |->
                        IF s = secname THEN NoOptions ELSE cx[s]]
        opts == options(cfg, secname)
        parsed == [o \in opts |-> _parse_option(parser_get(cfg, secname, o))]
        marked == {o \in opts : parsed[o].func # <<>>}
    IN [config |-> [cfg EXCEPT ![secname] = [o \in opts |-> parsed[o].value]],
        ctxs |-> [cx1 EXCEPT ![secname] =
                     [o \in DOMAIN cx1[secname] \cup marked |->
                         IF o \in marked THEN join(",", parsed[o].func)
                         ELSE cx1[secname][o]]]]

\* 'for secname, section in self._config.items()': the default section
\* first, then the sections; a section's turn touches only that section
RECURSIVE parse_sections(_, _, _)
parse_sections(cfg, cx, todo) ==
    IF todo = {} THEN [config |-> cfg, ctxs |-> cx]
    ELSE LET secname == IF default_section \in todo THEN default_section
                        ELSE CHOOSE s \in todo : TRUE
             one == parse_section(cfg, cx, secname)
         IN parse_sections(one.config, one.ctxs, todo \ {secname})

_parse_config(cfg, cx) == parse_sections(cfg, cx, DOMAIN cfg)

\* the format _check_and_parse_config acts on; len(self._ctxs._sections)
\* counts the sections of the context store, the default section apart
effective_format(cx, format) ==
    IF format = None /\ DOMAIN cx \ {default_section} = {} THEN Str("fini")
    ELSE format

\* _check_and_parse_config parsing whatever the format is
_check_and_parse_config_always(cfg, cx, format) == _parse_config(cfg, cx)

_check_and_parse_config(cfg, cx, format) ==
    IF effective_format(cx, format) = Str("fini") THEN _parse_config(cfg, cx)
    ELSE [config |-> cfg, ctxs |-> cx]

\* read_string(string, format) for a string configparser parses into 'text'
read_string(cfg, cx, text, format) ==
    _check_and_parse_config(parser_read(cfg, text), cx, format)

----------------------------------------------------------------------------
(* SectionProxy *)

_get_conf(cfg, section, option) ==
    IF has_option(cfg, section, option)
    THEN Str(parser_get(cfg, section, option)) ELSE _UNSET

\* an argparse.Namespace is always true; 'option in args' looks at its names
_get_arg(ns, option) ==
    IF option \in DOMAIN ns THEN ns[option] ELSE _UNSET

_get_env(names, env, option) ==
    IF names # <<>> /\ option \in DOMAIN names
       /\ names[option] # "" /\ names[option] \in DOMAIN env
    THEN Str(env[names[option]]) ELSE _UNSET

_get_values(cfg, ns, names, env, section, option) ==
    <<_get_arg(ns, option), _get_env(names, env, option),
      _get_conf(cfg, section, option)>>

\* _convert without the isinstance test
_convert_always(cx, ctx, option, triple) == Func_call(cx, ctx, option, triple)

\* a non-string argument value is returned as it is
_convert(cx, ctx, option, triple) ==
    LET arg == triple[1]
    IN IF arg \notin {_UNSET, None} /\ ~IsStr(arg) THEN arg
       ELSE Func_call(cx, ctx, option, triple)

\* SectionProxy.__getattr__(option) of the proxy of 'section' built on 'ctx'
SectionProxy_getattr(cfg, cx, ns, names, env, section, ctx, option) ==
    _convert(cx, ctx, option, _get_values(cfg, ns, names, env, section, option))

\* SectionProxy.__init__ letting a missing section exist when the default
\* section has options to inherit
SectionProxy_init_inherit(cfg, section) ==
    IF ~has_section(cfg, section) /\ DOMAIN cfg[default_section] = {}
    THEN Raise("NoSectionError") ELSE None

\* SectionProxy.__init__: the section must be in the config store; the
\* default section's options do not make a missing section exist
SectionProxy_init(cfg, section) ==
    IF ~has_section(cfg, section) THEN Raise("NoSectionError") ELSE None

\* the configuration a proxy works on, and a proxy: its section and the
\* section of the context store its ctx is a view of
Conf(cfg, cx, ns, names, env) ==
    [config |-> cfg, ctxs |-> cx, args |-> ns, envs |-> names, environ |-> env]
Proxy(section, ctx) == [section |-> section, ctx |-> ctx]

proxy_get_values(conf, proxy, option) ==
    _get_values(conf.config, conf.args, conf.envs, conf.environ,
                proxy.section, option)

proxy_getattr(conf, proxy, option) ==
    SectionProxy_getattr(conf.config, conf.ctxs, conf.args, conf.envs,
                         conf.environ, proxy.section, proxy.ctx, option)

\* 'except cls:' catches the exceptions of the class; NoOptionError derives
\* from Exception through configparser.Error, not from ValueError
Catches(cls, out) == IsRaise(out) /\ out.v = cls

\* SectionProxy.get(option, fallback)
SectionProxy_get(conf, proxy, option, fallback) ==
    LET out == proxy_getattr(conf, proxy, option)
    IN IF Catches("NoOptionError", out) /\ fallback # _UNSET THEN fallback
       ELSE out

----------------------------------------------------------------------------
(* Double *)

\* 'val in (None, '', [])': the blank values; False is not one of them
Blank(val) == val \in {None, Str(""), List(<<>>), Lists(<<>>)}

\* Double._get_value with 'if not val': False counts as blank
Double_get_value_falsy(conf, sec, parent_sec, option) ==
    LET val == SectionProxy_get(conf, sec, option, _UNSET)
        parent_val == SectionProxy_get(conf, parent_sec, option, _UNSET)
    IN IF Catches("NoOptionError", val) THEN parent_val
       ELSE IF IsRaise(val) THEN val
       ELSE IF (Blank(val) \/ val = Bool(FALSE))
               /\ ~Catches("NoOptionError", parent_val)
       THEN parent_val
       ELSE val

Double_get_value(conf, sec, parent_sec, option) ==
    LET val == SectionProxy_get(conf, sec, option, _UNSET)
        parent_val == SectionProxy_get(conf, parent_sec, option, _UNSET)
    IN IF Catches("NoOptionError", val) THEN parent_val
       ELSE IF IsRaise(val) THEN val
       ELSE IF Blank(val) /\ ~Catches("NoOptionError", parent_val)
       THEN parent_val
       ELSE val

\* Double._check_unset: NoOptionError when every value is _UNSET
_check_unset(vals) ==
    IF \A i \in DOMAIN vals : vals[i] = _UNSET
    THEN Raise("NoOptionError") ELSE None

\* Double._get_plus_value without the parent's value
Double_get_plus_value_alone(conf, sec, parent_sec, option) ==
    LET vals == proxy_get_values(conf, sec, option)
    IN IF IsRaise(_check_unset(vals)) THEN _check_unset(vals)
       ELSE _get_plusminus_values(Reversed(vals), None)

Double_get_plus_value(conf, sec, parent_sec, option) ==
    LET parent_val == _get_conf(conf.config, parent_sec.section, option)
        vals == Append(proxy_get_values(conf, sec, option), parent_val)
    IN IF IsRaise(_check_unset(vals)) THEN _check_unset(vals)
       ELSE _get_plusminus_values(Reversed(vals), None)

\* Double.__getattr__
Double_getattr(conf, sec, parent_sec, option) ==
    LET funcnames == _get_funcname(conf.ctxs, sec.ctx, option)
    IN IF IsRaise(funcnames) THEN funcnames
       ELSE IF funcnames = List(<<"_plus">>)
       THEN Double_get_plus_value(conf, sec, parent_sec, option)
       ELSE Double_get_value(conf, sec, parent_sec, option)

\* Double.get(option, fallback): 'except ValueError'
Double_get(conf, sec, parent_sec, option, fallback) ==
    LET out == Double_getattr(conf, sec, parent_sec, option)
    IN IF Catches("ValueError", out) /\ fallback # _UNSET THEN fallback
       ELSE out

----------------------------------------------------------------------------
(* Inputs *)

MaxReads == 2
MaxLayers == 2
MaxSplitLen == 3

Sections == {"DEFAULT", "sec1", "sec2"}
Options == {"aa", "bb"}
Formats == {None, Str("fini"), Str("ini")}

\* an option's text: a run of markers, each followed by sep, then the payload
RECURSIVE Marked(_, _, _)
Marked(names, sep, payload) ==
    IF names = <<>> THEN payload
    ELSE "[=" \o Head(names) \o "]" \o sep \o Marked(Tail(names), sep, payload)

\* option texts as configparser hands them over (no trailing whitespace)
RawInputs ==
    { "xxx", "",
      Marked(<<"COMMA">>, " ", "xxx1, xxx2, xxx3"),
      Marked(<<"COMMA", "BAR">>, "", "xxx1, xxx2, xxx3"),
      Marked(<<"BOOL", "BAR">>, "\n", "Yes"),
      Marked(<<"PLUS">>, "", "") }

\* what configparser makes of the strings read: one option of the default
\* section or of sec1, or a section with no option
TextInputs ==
    { [s \in {sec} |-> [o \in {"aa"} |-> v]] :
          sec \in {"DEFAULT", "sec1"}, v \in RawInputs }
    \cup { [s \in {sec} |-> NoOptions] : sec \in {"sec1", "sec2"} }

\* the chains and payloads of the options that are resolved
ChainInputs ==
    { <<>>, <<"COMMA">>, <<"COMMA", "BAR">>, <<"BOOL">>, <<"LINE">>,
      <<"PLUS">>, <<"COMMA", "PLUS">>, <<"PLUS", "BAR">> }
ConfInputs == {"", "C", "Yes", "xxx1, xxx2, xxx3", "aaa, bbb"}

\* the line-oriented directive form of the tests
DirectiveInputs == {":: f: comma\nxxx1, xxx2, xxx3", ":: f: bool\nYes"}

\* the text of an option declared with chain c and payload p
FetchText(c, p) == Marked(c, IF p = "" THEN "" ELSE " ", p)

FetchInputs ==
    { [s \in {"sec1"} |-> [o \in {"aa"} |-> v]] :
          v \in {FetchText(c, p) : c \in ChainInputs, p \in ConfInputs}
                \cup DirectiveInputs }
    \cup { [s \in {"sec1"} |-> NoOptions] }

\* the argparse namespace: no such name, or one of these values
ArgInputs ==
    { NoOptions } \cup
    { [o \in {"aa"} |-> v] :
          v \in {None, Str(""), Str("A"), Str("+ddd"),
                 Bool(TRUE), Bool(FALSE), List(<<"x">>)} }

\* the environment: no variable named for the option, a name that is not
\* set, or a name set to one of these strings
EnvInputs ==
    { [names |-> NoOptions, environ |-> NoOptions],
      [names |-> [o \in {"aa"} |-> "APP_AA"], environ |-> NoOptions] } \cup
    { [names |-> [o \in {"aa"} |-> "APP_AA"],
       environ |-> [n \in {"APP_AA"} |-> v]] : v \in {"", "E", "-aaa"} }

\* the layers and initial lists handed to _get_plusminus_values
LayerInputs ==
    { _UNSET, None, Str(""), List(<<>>), Bool(TRUE),
      Str("ddd"), Str("+ddd"), Str("-bbb"), Str("-aaa, -bbb"),
      Str("-aaa,+ddd,+eee"), Str("+aaa,+ddd,-ddd,+aaa"), Str("eee, ddd, eee"),
      Str("+x, y"), Str("y, +x"), Str("+"), Str(" , ") }
InitialInputs == { None, List(<<>>), List(<<"aaa", "bbb", "ccc">>),
                   List(<<"bbb", "aaa", "bbb">>) }

\* the option 'aa' of the primary section and of the fallback section of a
\* Double, as written in the text that is fetched
PrimaryInputs ==
    { "", "xxx", "[=COMMA]", "[=COMMA] xxx1, xxx2", "[=BOOL] No", "[=BOOL] bad",
      "[=PLUS] -yyy", "[=PLUS]", "[=PLUS] +x, y", "[=COMMA][=PLUS] -yyy" }
ParentInputs ==
    { "", "yyy", "xxx, yyy", "[=COMMA]", "[=BOOL] bad", "[=PLUS] xxx, yyy" }

OneOption(S) == { [o \in {"aa"} |-> v] : v \in S } \cup { NoOptions }

DoubleInputs ==
    { [s \in {"sec1", "sec2"} |-> IF s = "sec1" THEN p1 ELSE p2] :
          p1 \in OneOption(PrimaryInputs), p2 \in OneOption(ParentInputs) }

DoubleArgInputs ==
    { NoOptions } \cup
    { [o \in {"aa"} |-> v] :
          v \in {None, Str(""), Str("+zzz"), Bool(FALSE), List(<<>>)} }

DoubleEnvInputs ==
    { [names |-> NoOptions, environ |-> NoOptions] } \cup
    { [names |-> [o \in {"aa"} |-> "APP_AA"],
       environ |-> [n \in {"APP_AA"} |-> v]] : v \in {"", "-xxx"} }

\* the explicit fallback of a get: none passed, or a value
Fallbacks == { _UNSET, Str("fb") }

\* option texts with bracket tokens the registry does not know, next to
\* registered ones
ParseInputs ==
    { "xxx", "[=COMMA] xxx", "[=FOO] xxx", "[=comma] a, b",
      "[=COMMA][=FOO] a, b", "[=FOO][=COMMA] a", "[= COMMA] x", "[=] x" }
ParseTexts ==
    { [s \in {sec} |-> [o \in {"aa"} |-> v]] :
          sec \in {"DEFAULT", "sec1"}, v \in ParseInputs }

\* the strings handed to the splitters: every string of up to MaxSplitLen
\* of these characters, and the strings of the tests
SplitAlphabet == {"a", ",", "\\", " ", "\n"}

RECURSIVE StringsUpTo(_)
StringsUpTo(n) ==
    IF n = 0 THEN {""}
    ELSE LET shorter == StringsUpTo(n - 1)
         IN shorter \cup {x \o c : x \in shorter, c \in SplitAlphabet}

SplitInputs ==
    StringsUpTo(MaxSplitLen)
    \cup { "aaaa", "aa, bb", "aa\\, bb", "aa\\\\, bb", "aa\\a, bb", "aa,,",
           "aa\nbb", "aa\\\nbb", "aa\nbb," }

\* the texts, arguments and set values of a session of reads, set_value
\* calls and lookups
SessionTexts ==
    { [s \in {"DEFAULT", "sec1"} |->
          IF s = "DEFAULT" THEN [o \in {"aa"} |-> "[=COMMA] x, y"] ELSE NoOptions],
      [s \in {"DEFAULT"} |-> [o \in {"aa"} |-> "z"]],
      [s \in {"sec1", "sec2"} |->
          [o \in {"aa"} |-> IF s = "sec1" THEN "[=PLUS] -x" ELSE "x, y"]],
      [s \in {"sec2"} |-> NoOptions] }
SessionArgInputs == { NoOptions, [o \in {"aa"} |-> Str("+w")] }
SessionValues == { "v" }

RECURSIVE SeqsUpTo(_, _)
SeqsUpTo(S, n) ==
    IF n = 0 THEN {<<>>}
    ELSE LET shorter == SeqsUpTo(S, n - 1)
         IN shorter \cup {Append(q, x) : q \in shorter, x \in S}

----------------------------------------------------------------------------
(* Operations on a ConfigFetch *)

MergeIdle ==
    /\ adjusts = <<>> /\ initial = None /\ pos = 0
    /\ values = <<>> /\ before = <<>> /\ pc = "idle"

\* ConfigFetch(): empty stores, no argument namespace, no environment names
Init ==
    /\ config = NewParser /\ ctxs = NewParser
    /\ source = NewParser
    /\ cache = NoOptions
    /\ args = NoOptions /\ envs = NoOptions /\ environ = NoOptions
    /\ nreads = 0
    /\ result = [op |-> "init"]
    /\ MergeIdle

\* conf.read_string(string, format)
ReadString(text, format) ==
    /\ nreads < MaxReads
    /\ LET raw == parser_read(config, text)
           eff == effective_format(ctxs, format)
           new == read_string(config, ctxs, text, format)
       IN /\ config' = new.config
          /\ ctxs' = new.ctxs
          /\ source' = IF eff = Str("fini") THEN raw ELSE source
          /\ result' = [op |-> "read", text |-> text, format |-> format,
                        parsed |-> eff = Str("fini"), ctxs0 |-> ctxs,
                        out |-> None]
    /\ nreads' = nreads + 1
    /\ UNCHANGED <<cache, args, envs, environ>>
    /\ UNCHANGED mergeVars

\* conf.<section>: ConfigFetch.__getattr__, with SectionProxy.__init__
GetSection(section) ==
    /\ IF section \in DOMAIN cache
       THEN /\ result' = [op |-> "section", section |-> section,
                          out |-> Str(cache[section])]
            /\ UNCHANGED cache
       ELSE LET ctx == IF has_section(ctxs, section) THEN section
                       ELSE default_section
            IN IF IsRaise(SectionProxy_init(config, section))
               THEN /\ result' = [op |-> "section", section |-> section,
                                  out |-> SectionProxy_init(config, section)]
                    /\ UNCHANGED cache
               ELSE /\ cache' = [s \in DOMAIN cache \cup {section} |->
                                    IF s = section THEN ctx ELSE cache[s]]
                    /\ result' = [op |-> "section", section |-> section,
                                  out |-> Str(ctx)]
    /\ UNCHANGED <<config, ctxs, source, args, envs, environ, nreads>>
    /\ UNCHANGED mergeVars

\* Getattr that consumes what it reads: the option is left empty in the
\* section of the config store
Getattr_consuming(section, option) ==
    /\ section \in DOMAIN cache
    /\ result' = [op |-> "getattr", section |-> section, option |-> option,
                  triple |-> _get_values(config, args, envs, environ, section, option),
                  out |-> SectionProxy_getattr(config, ctxs, args, envs, environ,
                                               section, cache[section], option)]
    /\ config' = parser_set(config, section, option, "")
    /\ UNCHANGED <<ctxs, source, cache, args, envs, environ, nreads>>
    /\ UNCHANGED mergeVars

\* proxy.<option> on a proxy the cache holds: SectionProxy.__getattr__
Getattr(section, option) ==
    /\ section \in DOMAIN cache
    /\ result' = [op |-> "getattr", section |-> section, option |-> option,
                  triple |-> _get_values(config, args, envs, environ, section, option),
                  out |-> SectionProxy_getattr(config, ctxs, args, envs, environ,
                                               section, cache[section], option)]
    /\ UNCHANGED <<config, ctxs, source, cache, args, envs, environ, nreads>>
    /\ UNCHANGED mergeVars

\* the configuration as it is now, and the proxy the cache holds
TheConf == Conf(config, ctxs, args, envs, environ)
Cached(section) == Proxy(section, cache[section])

\* proxy.get(option, fallback) on a proxy the cache holds
Get(section, option, fallback) ==
    /\ section \in DOMAIN cache
    /\ result' = [op |-> "get", section |-> section, option |-> option,
                  fallback |-> fallback,
                  out |-> SectionProxy_get(TheConf, Cached(section), option,
                                           fallback)]
    /\ UNCHANGED <<config, ctxs, source, cache, args, envs, environ, nreads>>
    /\ UNCHANGED mergeVars

\* Double(conf.<sec>, conf.<parent>).<option>
DoubleGetattr(sec, parent, option) ==
    /\ sec \in DOMAIN cache /\ parent \in DOMAIN cache
    /\ result' = [op |-> "double_getattr", section |-> sec, parent |-> parent,
                  option |-> option,
                  out |-> Double_getattr(TheConf, Cached(sec), Cached(parent),
                                         option)]
    /\ UNCHANGED <<config, ctxs, source, cache, args, envs, environ, nreads>>
    /\ UNCHANGED mergeVars

\* Double(conf.<sec>, conf.<parent>).get(option, fallback)
DoubleGet(sec, parent, option, fallback) ==
    /\ sec \in DOMAIN cache /\ parent \in DOMAIN cache
    /\ result' = [op |-> "double_get", section |-> sec, parent |-> parent,
                  option |-> option, fallback |-> fallback,
                  out |-> Double_get(TheConf, Cached(sec), Cached(parent),
                                     option, fallback)]
    /\ UNCHANGED <<config, ctxs, source, cache, args, envs, environ, nreads>>
    /\ UNCHANGED mergeVars

\* proxy.set_value(option, value) on a proxy the cache holds
SetValue(section, option, value) ==
    /\ section \in DOMAIN cache
    /\ config' = parser_set(config, section, option, value)
    /\ result' = [op |-> "set_value", section |-> section, option |-> option,
                  value |-> value, out |-> None]
    /\ UNCHANGED <<ctxs, source, cache, args, envs, environ, nreads>>
    /\ UNCHANGED mergeVars

\* the resolution just made, made once more: proxy.<option> or
\* Double(...).<option> right after the same lookup
ResolveAgain ==
    /\ result.op \in {"getattr", "double_getattr"}
    /\ result' =
           [op |-> "again", of |-> result.op, section |-> result.section,
            option |-> result.option, first |-> result.out,
            out |-> IF result.op = "getattr"
                    THEN proxy_getattr(TheConf, Cached(result.section),
                                       result.option)
                    ELSE Double_getattr(TheConf, Cached(result.section),
                                        Cached(result.parent), result.option)]
    /\ UNCHANGED <<config, ctxs, source, cache, args, envs, environ, nreads>>
    /\ UNCHANGED mergeVars

Next ==
    \/ \E text \in TextInputs, format \in Formats : ReadString(text, format)
    \/ \E section \in Sections : GetSection(section)
    \/ \E section \in Sections, option \in Options : Getattr(section, option)

Spec == Init /\ [][Next]_vars

----------------------------------------------------------------------------
(* Full parses of texts with registered and unregistered bracket tokens *)

NextParse == \E text \in ParseTexts : ReadString(text, Str("fini"))

SpecParse == Init /\ [][NextParse]_vars

----------------------------------------------------------------------------
(* A session: ConfigFetch(args=...), then reads, set_value calls, section
   accesses and lookups through proxies and Doubles, in any order *)

InitSession ==
    /\ config = NewParser /\ ctxs = NewParser
    /\ source = NewParser
    /\ cache = NoOptions
    /\ args \in SessionArgInputs
    /\ envs = NoOptions /\ environ = NoOptions
    /\ nreads = 0
    /\ result = [op |-> "init"]
    /\ MergeIdle

NextSession ==
    \/ \E text \in SessionTexts, format \in Formats : ReadString(text, format)
    \/ \E section \in {"sec1", "sec2"} : GetSection(section)
    \/ \E section \in {"sec1", "sec2"}, value \in SessionValues :
           SetValue(section, "aa", value)
    \/ \E section \in {"sec1", "sec2"} : Getattr(section, "aa")
    \/ DoubleGetattr("sec1", "sec2", "aa")
    \/ ResolveAgain

SpecSession == InitSession /\ [][NextSession]_vars

----------------------------------------------------------------------------
(* Resolution: fetch(string, args=..., envs=...) and then option access *)

InitResolve ==
    \E text \in FetchInputs, ns \in ArgInputs, e \in EnvInputs :
        LET new == read_string(NewParser, NewParser, text, None)
        IN /\ config = new.config /\ ctxs = new.ctxs
           /\ source = parser_read(NewParser, text)
           /\ cache = NoOptions
           /\ args = ns /\ envs = e.names /\ environ = e.environ
           /\ nreads = 1
           /\ result = [op |-> "init"]
           /\ MergeIdle

NextResolve ==
    \/ \E section \in Sections : GetSection(section)
    \/ \E section \in Sections, option \in Options : Getattr(section, option)

SpecResolve == InitResolve /\ [][NextResolve]_vars

----------------------------------------------------------------------------
(* Double: fetch(string, args=..., envs=...), conf.sec1 and conf.sec2 taken,
   then lookups through the proxies and through Double(conf.sec1, conf.sec2) *)

InitDouble ==
    \E text \in DoubleInputs, ns \in DoubleArgInputs, e \in DoubleEnvInputs :
        LET new == read_string(NewParser, NewParser, text, None)
        IN /\ config = new.config /\ ctxs = new.ctxs
           /\ source = parser_read(NewParser, text)
           /\ cache = [s \in {"sec1", "sec2"} |-> s]
           /\ args = ns /\ envs = e.names /\ environ = e.environ
           /\ nreads = 1
           /\ result = [op |-> "init"]
           /\ MergeIdle

NextDouble ==
    \/ \E section \in {"sec1", "sec2"}, option \in Options, fallback \in Fallbacks :
           Get(section, option, fallback)
    \/ \E option \in Options : DoubleGetattr("sec1", "sec2", option)
    \/ \E option \in Options, fallback \in Fallbacks :
           DoubleGet("sec1", "sec2", option, fallback)

SpecDouble == InitDouble /\ [][NextDouble]_vars

----------------------------------------------------------------------------
(* The splitters, as functions of a string *)

InitSplit ==
    /\ config = NewParser /\ ctxs = NewParser /\ source = NewParser
    /\ cache = NoOptions
    /\ args = NoOptions /\ envs = NoOptions /\ environ = NoOptions
    /\ nreads = 0
    /\ \E value \in SplitInputs : result = [op |-> "input", value |-> value]
    /\ MergeIdle

\* _parse_comma(value)
CallParseComma ==
    /\ result.op = "input"
    /\ result' = [op |-> "_parse_comma", value |-> result.value,
                  out |-> _parse_comma(result.value)]
    /\ UNCHANGED <<config, ctxs, source, cache, args, envs, environ, nreads>>
    /\ UNCHANGED mergeVars

\* _parse_line(value)
CallParseLine ==
    /\ result.op = "input"
    /\ result' = [op |-> "_parse_line", value |-> result.value,
                  out |-> _parse_line(result.value)]
    /\ UNCHANGED <<config, ctxs, source, cache, args, envs, environ, nreads>>
    /\ UNCHANGED mergeVars

NextSplit == CallParseComma \/ CallParseLine

SpecSplit == InitSplit /\ [][NextSplit]_vars

----------------------------------------------------------------------------
(* The plus/minus merge, one layer at a time *)

InitMerge ==
    /\ config = NewParser /\ ctxs = NewParser /\ source = NewParser
    /\ cache = NoOptions
    /\ args = NoOptions /\ envs = NoOptions /\ environ = NoOptions
    /\ nreads = 0
    /\ result = [op |-> "init"]
    /\ adjusts \in SeqsUpTo(LayerInputs, MaxLayers)
    /\ initial \in InitialInputs
    /\ pos = 0
    /\ values = plusminus_initial(initial)
    /\ before = plusminus_initial(initial)
    /\ pc = "loop"

\* one turn of 'for adjust in adjusts'
Layer ==
    /\ pc = "loop" /\ pos < Len(adjusts)
    /\ LET step == plusminus_layer(values, adjusts[pos + 1])
       IN IF IsRaise(step)
          THEN /\ pc' = step.v
               /\ pos' = pos + 1
               /\ UNCHANGED <<values, before>>
          ELSE /\ values' = step.v
               /\ before' = values
               /\ pos' = pos + 1
               /\ pc' = "loop"
    /\ UNCHANGED <<adjusts, initial>>
    /\ UNCHANGED storeVars

\* return list(values.keys())
Return ==
    /\ pc = "loop" /\ pos = Len(adjusts)
    /\ pc' = "returned"
    /\ UNCHANGED <<adjusts, initial, pos, values, before>>
    /\ UNCHANGED storeVars

NextMerge == Layer \/ Return

SpecMerge == InitMerge /\ [][NextMerge]_vars

----------------------------------------------------------------------------
(* Properties of resolution, checked under SpecResolve *)

\* the last operation resolved an option through a section proxy
Resolved == result.op = "getattr"

\* the chain declared in the text that was fetched for the resolved option
\* (the empty chain for an option the text does not hold)
DeclaredCases ==
    { [text |-> FetchText(c, p), names |-> c, payload |-> p] :
          c \in ChainInputs, p \in ConfInputs }

WrittenText ==
    IF /\ result.section \in DOMAIN source
       /\ result.option \in DOMAIN source[result.section]
    THEN Str(source[result.section][result.option]) ELSE None

HasDeclared ==
    WrittenText = None \/ \E d \in DeclaredCases : Str(d.text) = WrittenText

Declared ==
    IF WrittenText = None THEN <<>>
    ELSE (CHOOSE d \in DeclaredCases : Str(d.text) = WrittenText).names

ArgSupplied(triple) == triple[1].t \notin {"unset", "none"}
EnvAvailable(triple) == triple[2].t = "str" /\ triple[2].v # ""
ConfAvailable(triple) == triple[3].t = "str"

\* the value the precedence rule names
Winner(triple) ==
    IF ArgSupplied(triple) THEN triple[1]
    ELSE IF EnvAvailable(triple) THEN triple[2]
    ELSE triple[3]

\* C1: resolution picks the argument value whenever it is supplied (the empty
\* string included; None is argparse's "not supplied"), otherwise the
\* environment value when present and non-empty, otherwise the config value
\* when present (the empty string included), and raises NoOptionError when
\* none is available.  Stated on options with no chain, where the resolved
\* value is the value picked.
C1_Precedence ==
    (Resolved /\ HasDeclared /\ Declared = <<>>) =>
        LET triple == result.triple
        IN /\ (ArgSupplied(triple) \/ EnvAvailable(triple) \/ ConfAvailable(triple))
                => result.out = Winner(triple)
           /\ ~(ArgSupplied(triple) \/ EnvAvailable(triple) \/ ConfAvailable(triple))
                => result.out = Raise("NoOptionError")
           /\ triple = <<Str("A"), Str("E"), Str("C")>> => result.out = Str("A")
           /\ triple = <<Str(""), Str("E"), Str("C")>> => result.out = Str("")
           /\ triple = <<_UNSET, Str(""), Str("C")>> => result.out = Str("C")
           /\ triple = <<_UNSET, _UNSET, Str("")>> => result.out = Str("")

\* the empty environment value loses to the config value
C1_Witness ==
    /\ Resolved /\ HasDeclared /\ Declared = <<>>
    /\ result.triple = <<_UNSET, Str(""), Str("C")>>
    /\ result.out = Str("C")

\* C2: a non-string argument value is returned unchanged, whatever the
\* chain, the environment value and the config value are.
C2_NonStringArgument ==
    (Resolved /\ result.triple[1].t \in {"bool", "list", "lists"}) =>
        result.out = result.triple[1]

\* the boolean False of the namespace under a declared chain and with both
\* other sources present
C2_Witness ==
    /\ Resolved /\ HasDeclared /\ Declared = <<"COMMA", "BAR">>
    /\ result.triple = <<Bool(FALSE), Str("E"), Str("xxx1, xxx2, xxx3")>>
    /\ result.out = Bool(FALSE)

\* the functions named, applied first to last, an exception ending the chain
RECURSIVE InOrder(_, _, _)
InOrder(names, value, triple) ==
    IF names = <<>> \/ IsRaise(value) THEN value
    ELSE InOrder(Tail(names),
                 apply_func("_" \o lower(Head(names)), value, triple), triple)

\* C3: the declared chain is applied to the winning string value in
\* declaration order, each function receiving the previous output; an empty
\* chain gives the winning raw value.
C3_ChainInOrder ==
    (Resolved /\ HasDeclared /\ IsStr(Winner(result.triple))) =>
        /\ result.out = InOrder(Declared, Winner(result.triple), result.triple)
        /\ Declared = <<>> => result.out = Winner(result.triple)
        /\ (/\ Declared = <<"COMMA", "BAR">>
            /\ Winner(result.triple) = Str("xxx1, xxx2, xxx3"))
               => result.out = Str("xxx1|xxx2|xxx3")

C3_Witness ==
    /\ Resolved /\ HasDeclared /\ Declared = <<"COMMA", "BAR">>
    /\ result.triple = <<_UNSET, _UNSET, Str("xxx1, xxx2, xxx3")>>
    /\ result.out = Str("xxx1|xxx2|xxx3")

\* the place of PLUS in a chain, 0 when the chain has none
PlusAt(names) ==
    IF \E i \in DOMAIN names : names[i] = "PLUS"
    THEN CHOOSE i \in DOMAIN names :
             names[i] = "PLUS" /\ \A j \in 1..(i - 1) : names[j] # "PLUS"
    ELSE 0

\* C10: when 'plus' runs in a chain, what it returns is the merge of the
\* config, environment and argument values, in this order and with no
\* initial list, whatever the chain handed to it.
C10_PlusReadsSources ==
    (Resolved /\ HasDeclared /\ IsStr(Winner(result.triple))
       /\ PlusAt(Declared) > 0) =>
        LET triple == result.triple
            k == PlusAt(Declared)
            handed == InOrder(SubSeq(Declared, 1, k - 1), Winner(triple), triple)
            merged == _get_plusminus_values(
                          <<triple[3], triple[2], triple[1]>>, None)
        IN ~IsRaise(handed) =>
              result.out = InOrder(SubSeq(Declared, k + 1, Len(Declared)),
                                   merged, triple)

\* plus after comma: the list comma made is dropped, the three sources merged
C10_Witness ==
    /\ Resolved /\ HasDeclared /\ Declared = <<"COMMA", "PLUS">>
    /\ result.triple = <<Str("+ddd"), Str("-aaa"), Str("aaa, bbb")>>
    /\ result.out = List(<<"bbb", "ddd">>)

----------------------------------------------------------------------------
(* Properties of the plus/minus merge, checked under SpecMerge *)

\* the loop has consumed a layer: adjusts[pos] is the last one
Consumed == pc # "idle" /\ pos >= 1
LastLayer == adjusts[pos]

Signed(member) == startswith(member, "+") \/ startswith(member, "-")

\* a layer the loop does not skip and whose members are all bare
BareLayer(adjust) ==
    /\ IsStr(adjust) /\ adjust.v # ""
    /\ \A i \in DOMAIN _parse_comma(adjust.v) : ~Signed(_parse_comma(adjust.v)[i])

\* a layer of '+name' and '-name' members only, every name non-empty
SignedLayer(adjust) ==
    /\ IsStr(adjust) /\ _parse_comma(adjust.v) # <<>>
    /\ \A i \in DOMAIN _parse_comma(adjust.v) :
           Signed(_parse_comma(adjust.v)[i]) /\ Len(_parse_comma(adjust.v)[i]) > 1

\* a layer with a signed member and a bare one
MixedLayer(adjust) ==
    /\ IsStr(adjust)
    /\ \E i \in DOMAIN _parse_comma(adjust.v) : Signed(_parse_comma(adjust.v)[i])
    /\ \E i \in DOMAIN _parse_comma(adjust.v) : ~Signed(_parse_comma(adjust.v)[i])

SkippedLayer(adjust) == adjust \in {_UNSET, None, Str(""), List(<<>>)}

NoRepeat(seq) == \A i, j \in DOMAIN seq : seq[i] = seq[j] => i = j

\* seq without the members that repeat an earlier one
FirstOccurrences(seq) ==
    LET keep == {i \in DOMAIN seq : \A j \in 1..(i - 1) : seq[j] # seq[i]}
        place(i) == Cardinality({j \in keep : j <= i})
    IN [n \in 1..Cardinality(keep) |-> seq[CHOOSE i \in keep : place(i) = n]]

\* C6 as stated: after a layer of bare members the accumulated list is
\* exactly the comma-split members of the layer, in order.
C6_ReplaceExactly ==
    (Consumed /\ BareLayer(LastLayer)) =>
        /\ pc \in {"loop", "returned"}
        /\ values = _parse_comma(LastLayer.v)

\* C6: after a layer of bare members, what was accumulated is discarded and
\* the accumulated list is the comma-split members of the layer, in order,
\* each member kept at its first occurrence only.
C6_Replace ==
    (Consumed /\ BareLayer(LastLayer)) =>
        /\ pc \in {"loop", "returned"}
        /\ values = FirstOccurrences(_parse_comma(LastLayer.v))
        /\ (NoRepeat(_parse_comma(LastLayer.v))
               => values = _parse_comma(LastLayer.v))
        /\ (adjusts = <<Str("ddd")>> /\ initial = List(<<"aaa", "bbb", "ccc">>))
               => values = <<"ddd">>

\* a replacement that throws away three accumulated names
C6_Witness ==
    /\ Consumed /\ LastLayer = Str("ddd")
    /\ before = <<"aaa", "bbb", "ccc">>
    /\ values = <<"ddd">>

\* '+name' appends name if it is not in the list, '-name' removes it if it is
PlusMinusMember(keys, member) ==
    LET name == Drop(member, 1)
    IN IF startswith(member, "+")
       THEN (IF \E i \in DOMAIN keys : keys[i] = name THEN keys
             ELSE keys \o <<name>>)
       ELSE SelectSeq(keys, LAMBDA k : k # name)

RECURSIVE PlusMinusMembers(_, _)
PlusMinusMembers(keys, members) ==
    IF members = <<>> THEN keys
    ELSE PlusMinusMembers(PlusMinusMember(keys, Head(members)), Tail(members))

\* C7: in a layer of '+name' and '-name' members, each '+name' appends name
\* at the end only if it is not already there, each '-name' removes name if
\* it is there, the other elements keeping their order; the list accumulated
\* for any initial list and any layers never holds a name twice.
C7_PlusMinus ==
    /\ NoRepeat(values)
    /\ (Consumed /\ SignedLayer(LastLayer)) =>
          /\ pc \in {"loop", "returned"}
          /\ values = PlusMinusMembers(before, _parse_comma(LastLayer.v))
    /\ (/\ pc = "returned" /\ adjusts = <<Str("-aaa,+ddd,+eee")>>
        /\ initial = List(<<"aaa", "bbb", "ccc">>))
          => values = <<"bbb", "ccc", "ddd", "eee">>

\* a layer that re-adds a name the list already holds
C7_Witness ==
    /\ pc = "returned"
    /\ initial = List(<<"aaa", "bbb", "ccc">>)
    /\ adjusts = <<Str("-aaa,+ddd,+eee"), Str("+aaa,+ddd,-ddd,+aaa")>>
    /\ values = <<"bbb", "ccc", "eee", "aaa">>

\* C8: a layer that mixes signed and bare members ends the merge with a
\* ValueError: the call returns no list.
C8_MixedLayerRaises ==
    /\ (Consumed /\ MixedLayer(LastLayer)) => pc = "ValueError"
    /\ pc = "returned" => \A i \in DOMAIN adjusts : ~MixedLayer(adjusts[i])

\* the signed member first: the loop has handled it when the bare one raises
C8_Witness ==
    /\ Consumed /\ LastLayer = Str("+x, y")
    /\ pc = "ValueError"

\* C9: a layer that is the unset marker, None, '' or an empty list is
\* skipped: the accumulated list after it is the list before it.
C9_SkipBlankLayer ==
    (Consumed /\ SkippedLayer(LastLayer)) =>
        /\ pc \in {"loop", "returned"}
        /\ values = before

\* an empty string after a layer that produced a list
C9_Witness ==
    /\ Consumed /\ pos = Len(adjusts)
    /\ adjusts = <<Str("ddd"), Str("")>>
    /\ values = <<"ddd">>

----------------------------------------------------------------------------
(* Properties of the full parse *)

\* the last operation was a read that ran the full parse
FullParsed == result.op = "read" /\ result.parsed

\* texts that start with a run of up to two markers, the markers followed by
\* nothing, a space or a newline, before a payload that starts with neither
\* whitespace nor a marker
MarkerRuns ==
    {<<>>} \cup {<<f>> : f \in DOMAIN funcdict}
           \cup {<<f, g>> : f \in DOMAIN funcdict, g \in DOMAIN funcdict}

MarkedCases ==
    { [text |-> Marked(names, sep, payload), names |-> names, payload |-> payload] :
          names \in MarkerRuns,
          sep \in {"", " ", "\n"},
          payload \in {"", "xxx", "Yes", "xxx1, xxx2, xxx3"} }

\* the chain the context store holds for the option in the section itself
OwnChain(cx, section, option) ==
    IF section \in DOMAIN cx /\ option \in DOMAIN cx[section]
    THEN Str(cx[section][option]) ELSE None

\* C4: a full parse consumes the whole leading run of markers of an option's
\* text: the stored value is the payload that follows the run and the
\* whitespace around its markers, the recorded chain is the marker names in
\* their textual order; a text that starts with no marker is stored as it is
\* and the parse records no chain for the option.
C4_ParseMarkers ==
    FullParsed =>
        \A section \in DOMAIN source : \A option \in DOMAIN source[section] :
            \A case \in MarkedCases :
                case.text = source[section][option] =>
                    /\ config[section][option] = case.payload
                    /\ IF case.names # <<>>
                       THEN OwnChain(ctxs, section, option)
                                = Str(join(",", case.names))
                       ELSE /\ config[section][option] = source[section][option]
                            /\ OwnChain(ctxs, section, option)
                                   = OwnChain(result.ctxs0, section, option)

\* two markers with nothing between them, both consumed
C4_Witness ==
    /\ FullParsed
    /\ "sec1" \in DOMAIN source /\ "aa" \in DOMAIN source["sec1"]
    /\ source["sec1"]["aa"] = "[=COMMA][=BAR]xxx1, xxx2, xxx3"
    /\ config["sec1"]["aa"] = "xxx1, xxx2, xxx3"
    /\ ctxs["sec1"]["aa"] = "COMMA,BAR"

\* C5 as stated: an option written in the line-oriented directive form
\* resolves with the chain its ':: f:' line declares: ':: f: comma' before
\* 'xxx1, xxx2, xxx3' gives the three-element list, ':: f: bool' before
\* 'Yes' gives true.
C5_DirectiveForm ==
    (/\ Resolved /\ WrittenText # None
     /\ ~ArgSupplied(result.triple) /\ ~EnvAvailable(result.triple)) =>
        /\ WrittenText = Str(":: f: comma\nxxx1, xxx2, xxx3")
              => result.out = List(<<"xxx1", "xxx2", "xxx3">>)
        /\ WrittenText = Str(":: f: bool\nYes") => result.out = Bool(TRUE)

----------------------------------------------------------------------------
(* Properties of Double and of get, checked under SpecDouble *)

\* the last operation resolved an option through the Double
DoubleResolved == result.op = "double_getattr"

\* the chain the context store records for the option in the section
\* ("" when it records none)
RecordedChain(section, option) ==
    IF has_option(ctxs, section, option)
    THEN parser_get(ctxs, section, option) ELSE ""

\* what the primary proxy and the fallback proxy give for the option
Primary == proxy_getattr(TheConf, Cached(result.section), result.option)
Fallback == proxy_getattr(TheConf, Cached(result.parent), result.option)

\* C11: when the chain of the option in the primary section is not exactly
\* 'plus', Double resolution gives the fallback proxy's outcome when the
\* primary raises NoOptionError, the fallback proxy's outcome when the
\* primary is blank (None, '' or an empty list) and the fallback does not
\* raise NoOptionError, and the primary's own outcome in every other case
\* (False included, and blank with a fallback that has no such option).
C11_DoubleFallback ==
    (DoubleResolved /\ RecordedChain(result.section, result.option) # "PLUS")
        => result.out =
               IF Primary = Raise("NoOptionError") THEN Fallback
               ELSE IF Primary \in {None, Str(""), List(<<>>), Lists(<<>>)}
                       /\ Fallback # Raise("NoOptionError")
               THEN Fallback
               ELSE Primary

\* a blank primary ([] from an empty comma list) replaced by the fallback's
\* value
C11_Witness ==
    /\ DoubleResolved
    /\ RecordedChain(result.section, result.option) = "COMMA"
    /\ Primary = List(<<>>)
    /\ Fallback = Str("yyy")
    /\ result.out = Str("yyy")

\* C12: when the chain of the option in the primary section is exactly
\* 'plus', Double resolution is the plus/minus merge of the fallback
\* section's raw config value, the primary's config value, its environment
\* value and its argument value, in this order, and NoOptionError when all
\* four are absent.
C12_DoublePlus ==
    (DoubleResolved /\ RecordedChain(result.section, result.option) = "PLUS")
        => LET own == _get_values(config, args, envs, environ,
                                  result.section, result.option)
               four == << _get_conf(config, result.parent, result.option),
                          own[3], own[2], own[1] >>
           IN result.out =
                  IF \A i \in 1..4 : four[i] = _UNSET
                  THEN Raise("NoOptionError")
                  ELSE _get_plusminus_values(four, None)

\* parent 'xxx, yyy' with child '-yyy' gives ['xxx']
C12_Witness ==
    /\ DoubleResolved
    /\ RecordedChain(result.section, result.option) = "PLUS"
    /\ _get_conf(config, result.parent, result.option) = Str("xxx, yyy")
    /\ _get_conf(config, result.section, result.option) = Str("-yyy")
    /\ result.out = List(<<"xxx">>)

\* a lookup with an explicit fallback argument, and what the lookup raises
\* or returns when the fallback argument is left out of account
Lookup == result.op \in {"get", "double_get"}
Underlying ==
    IF result.op = "get"
    THEN proxy_getattr(TheConf, Cached(result.section), result.option)
    ELSE Double_getattr(TheConf, Cached(result.section), Cached(result.parent),
                        result.option)

\* C13 as stated: SectionProxy.get and Double.get return the fallback passed
\* when the option has no value from any source, and raise NoOptionError
\* when no fallback is passed.
C13_GetFallback ==
    (Lookup /\ Underlying = Raise("NoOptionError"))
        => result.out = IF result.fallback = _UNSET THEN Raise("NoOptionError")
                        ELSE result.fallback

\* C14 as stated: a conversion error raised while resolving an option
\* reaches the caller of SectionProxy.get and of Double.get, whether a
\* fallback is passed or not.
C14_ConversionErrorSurfaces ==
    (Lookup /\ Underlying = Raise("ValueError"))
        => result.out = Raise("ValueError")

----------------------------------------------------------------------------
(* Properties of section access and of reads, checked under Spec *)

\* the last operation was conf.<section>, or a read
SectionAccessed == result.op = "section"
ReadDone == result.op = "read"

\* C15: accessing a section that is not a section of the config store raises
\* NoSectionError, whatever the default section defines; a section of the
\* store (the default section is one) gives a proxy.
C15_NoSectionError ==
    SectionAccessed =>
        (result.out = Raise("NoSectionError")
            <=> result.section \notin DOMAIN config)

\* a missing section refused while the default section has an option
C15_Witness ==
    /\ SectionAccessed
    /\ result.section \notin DOMAIN config
    /\ DOMAIN config[default_section] # {}
    /\ result.out = Raise("NoSectionError")

\* C16: a read with format 'ini' leaves the context store as it was: the
\* same sections and the same chain for every option.
C16_IniKeepsContext ==
    (ReadDone /\ result.format = Str("ini")) => ctxs = result.ctxs0

\* an 'ini' read of a text that starts with a bracket marker: the marker is
\* now in the config store and the context store is as before
C16_Witness ==
    /\ ReadDone /\ result.format = Str("ini")
    /\ \E sec \in DOMAIN result.text :
           /\ "aa" \in DOMAIN result.text[sec]
           /\ startswith(result.text[sec]["aa"], "[=COMMA]")
           /\ config[sec]["aa"] = result.text[sec]["aa"]
    /\ ctxs = result.ctxs0

\* no definition is recorded: no section of the context store has a chain
NoDefinition(cx) == \A sec \in DOMAIN cx : DOMAIN cx[sec] = {}

\* C17 as stated: a read with format None is a full parse exactly when no
\* definition has been recorded in the context store by an earlier read.
C17_FormatNone ==
    (ReadDone /\ result.format = None)
        => (result.parsed <=> NoDefinition(result.ctxs0))

----------------------------------------------------------------------------
(* Unregistered bracket tokens, checked under SpecParse *)

\* the text starts with a bracket token [=NAME] whose NAME the registry
\* does not have
StartsUnregistered(value) ==
    /\ startswith(value, "[=")
    /\ Len(split(value, "]")) >= 2
    /\ Drop(split(value, "]")[1], 2) \notin DOMAIN funcdict

\* C18 as stated: a full parse of an option whose text starts with a bracket
\* token naming an unregistered function ends in a lookup error, and the
\* token is not kept as part of the payload.
C18_UnregisteredMarker ==
    (ReadDone /\ result.parsed)
        => \A sec \in DOMAIN result.text : \A o \in DOMAIN result.text[sec] :
               StartsUnregistered(result.text[sec][o])
                   => /\ IsRaise(result.out)
                      /\ config[sec][o] # result.text[sec][o]

----------------------------------------------------------------------------
(* Properties of the splitters, checked under SpecSplit *)

SplitDone == result.op \in {"_parse_comma", "_parse_line"}
Delimiter == IF result.op = "_parse_comma" THEN "," ELSE "\n"

RECURSIVE Backslashes(_)
Backslashes(n) == IF n = 0 THEN "" ELSE "\\" \o Backslashes(n - 1)

\* the pieces of s under backslash escapes: a delimiter after a run of n
\* backslashes is kept in the piece when n is odd and ends the piece when n
\* is even, the run becoming n \div 2 backslashes; a run before any other
\* character stays as it is
RECURSIVE EscapedPieces(_, _, _, _)
EscapedPieces(s, delim, piece, n) ==
    IF s = "" THEN <<piece \o Backslashes(n)>>
    ELSE LET c == Char(s, 1)
             rest == Drop(s, 1)
         IN IF c = "\\" THEN EscapedPieces(rest, delim, piece, n + 1)
            ELSE IF c # delim
            THEN EscapedPieces(rest, delim, piece \o Backslashes(n) \o c, 0)
            ELSE IF n % 2 = 1
            THEN EscapedPieces(rest, delim,
                               piece \o Backslashes(n \div 2) \o c, 0)
            ELSE <<piece \o Backslashes(n \div 2)>>
                     \o EscapedPieces(rest, delim, "", 0)

\* C19 as stated: the splitters honour backslash escapes: an escaped
\* delimiter (odd run of backslashes before it) stays in the element, an
\* unescaped one splits, and the run collapses to half its length.
C19_EscapedSplit ==
    SplitDone =>
        result.out =
            IF result.value = "" THEN <<>>
            ELSE StripNonBlank(EscapedPieces(result.value, Delimiter, "", 0),
                               IF result.op = "_parse_comma" THEN Whitespace
                               ELSE {" ", ","})

\* C20 as stated: the splitters return only non-empty elements with no
\* surrounding whitespace, a string with no delimiter gives [s.strip()] or
\* [], and split_line strips whitespace only (a comma stays in the element).
C20_SplitElements ==
    SplitDone =>
        /\ \A i \in DOMAIN result.out :
               /\ result.out[i] # ""
               /\ strip(result.out[i]) = result.out[i]
        /\ (\A k \in 1..Len(result.value) : Char(result.value, k) # Delimiter)
               => result.out = IF strip(result.value) # ""
                               THEN <<strip(result.value)>> ELSE <<>>
        /\ result.op = "_parse_line"
               => result.out = StripNonBlank(split(result.value, "\n"),
                                             Whitespace)

----------------------------------------------------------------------------
(* Properties of a session, checked under SpecSession *)

\* C21: a resolution through a SectionProxy or a Double leaves the config
\* store and the context store as they were, and the same resolution made
\* again right after it gives the same outcome, value or error.
C21_ResolveIdempotent ==
    [][ /\ result'.op \in {"getattr", "double_getattr", "again"}
            => (config' = config /\ ctxs' = ctxs)
        /\ result'.op = "again" => result'.out = result'.first ]_vars

\* a Double resolved twice, after the stores were filled by reads: both
\* times the merge of the fallback's value, the primary's and the argument
C21_Witness ==
    /\ result.op = "again" /\ result.of = "double_getattr"
    /\ result.first = List(<<"y", "w">>)
    /\ result.out = List(<<"y", "w">>)

\* C22 as stated: a full parse does not change which options a section
\* defines itself: after it every section of the config store has the own
\* options it had when the parse began, and an inherited option is still
\* inherited.
C22_ParseKeepsInheritance ==
    (ReadDone /\ result.parsed)
        => \A sec \in DOMAIN config : DOMAIN config[sec] = DOMAIN source[sec]

----------------------------------------------------------------------------
(* The proxy cache, checked under Spec *)

\* the context section a proxy built now for the section would work on
CurrentCtx(section) ==
    IF has_section(ctxs, section) THEN section ELSE default_section

\* C23 as stated: the proxy the cache gives for a section resolves with the
\* chains the context store records for the section now, as a proxy built
\* now would; and a section name refused with NoSectionError is not
\* memoized.
C23_CachedProxyCurrent ==
    /\ Resolved
           => result.out = proxy_getattr(TheConf,
                                         Proxy(result.section,
                                               CurrentCtx(result.section)),
                                         result.option)
    /\ (SectionAccessed /\ result.out = Raise("NoSectionError"))
           => result.section \notin DOMAIN cache

=============================================================================
